---- MODULE Spec2Model ----
(***************************************************************************)
(* KM24 agent backend: the KM24 client (backend/km24_client.py) and the    *)
(* filter validation pipeline (backend/main.py).                           *)
(*                                                                         *)
(* Four specifications share this module:                                  *)
(*   Spec          validate_filters_with_km24 against the KM24 platform    *)
(*   SpecConcurrent  several validate calls in flight at once              *)
(*   SpecTranslate the filters -> parts conversion as a pure function      *)
(*   SpecModules   concurrent KM24Client.get_modules calls and the cache   *)
(* A coroutine runs atomically between two awaits, so every action is the  *)
(* code from one resumption to the next suspension (or to its exit).       *)
(***************************************************************************)
EXTENDS Integers, Sequences, FiniteSets, TLC

VARIABLES
    km24_client,     \* main.py:42-46   TRUE iff the KM24Client was constructed
    pc,              \* per validate call: where the coroutine is suspended
    module_id,       \* per call: argument module_id
    filters,         \* per call: argument filters (insertion-ordered mapping)
    parts,           \* per call: local parts
    step_id,         \* per call: local step_id (0 before it is assigned)
    hits_data,       \* per call: local hits_data
    result,          \* per call: the ValidationResult returned
    raised,          \* per call: the exception raised to the caller
    cause,           \* per call: the exception caught at main.py:331, and its origin
    upstream,        \* per call: the KM24Client calls made, in order
    steps,           \* platform: the steps that exist
    nextStepId,      \* platform: the id the next created step gets
    translate,       \* SpecTranslate: inputs and output of the conversion
    modules_cache,   \* KM24Client._modules_cache
    gm,              \* per get_modules caller: position, argument, return
    platformVersion, \* platform: which module list /modules/basic serves now
    served           \* platform: the versions /modules/basic has answered with

vars == <<km24_client, pc, module_id, filters, parts, step_id, hits_data,
          result, raised, cause, upstream, steps, nextStepId, translate,
          modules_cache, gm, platformVersion, served>>

validateVars == <<km24_client, pc, module_id, filters, parts, step_id,
                  hits_data, result, raised, cause, upstream, steps, nextStepId>>
modulesVars == <<modules_cache, gm, platformVersion, served>>

----------------------------------------------------------------------------
(* Bounds of the model *)

MaxFilters == 2      \* entries in a filters mapping
MaxParts == 2        \* parts in a module schema (SpecTranslate)
MaxItems == 4        \* raw hits on a hits page
MaxLowHits == 2      \* hit counts 0..MaxLowHits are served
MaxOver == 2         \* hit counts within MaxOver of the high-hit threshold are served
MaxVersion == 3      \* versions of the platform's module list
NumCallers == 2      \* concurrent get_modules callers
NumCalls == 2        \* concurrent validate calls (SpecConcurrent)

(* Program constants *)

HighHitThreshold == 100   \* main.py:319
SampleSize == 3           \* main.py:304
LookbackDays == 30        \* main.py:288

----------------------------------------------------------------------------
(* Python values a filter may hold: a str, None or a list of str *)

PyStr(s) == [kind |-> "str", s |-> s, l |-> <<>>]
PyNone == [kind |-> "none", s |-> "", l |-> <<>>]
PyList(l) == [kind |-> "list", s |-> "", l |-> l]

\* Python truthiness: "", None and [] are falsy
Truthy(v) ==
    CASE v.kind = "str" -> v.s # ""
      [] v.kind = "none" -> FALSE
      [] v.kind = "list" -> v.l # <<>>

FilterNames == {"kommune", "branche", "soegeord"}
FilterValues == {PyStr("Aarhus"), PyStr(""), PyNone,
                 PyList(<<"Aarhus", "Odense">>), PyList(<<>>)}
FilterItems == [name : FilterNames, value : FilterValues]

\* a dict in insertion order: a sequence of items with distinct keys
IsMapping(f) == \A i, j \in 1..Len(f) : f[i].name = f[j].name => i = j
FilterSpecs ==
    {f \in UNION {[1..n -> FilterItems] : n \in 0..MaxFilters} : IsMapping(f)}

\* module.parts: the part descriptors of a module schema
PartSlugs == {"kommune", "branche"}
PartIds == {5, 7}
PartDescriptors == [id : PartIds, slug : PartSlugs]
ModuleSchemas == UNION {[1..n -> PartDescriptors] : n \in 0..MaxParts}
UniqueSlugs(ps) == \A i, j \in 1..Len(ps) : ps[i].slug = ps[j].slug => i = j

----------------------------------------------------------------------------
(* main.py:259-271: the filters -> parts conversion *)

\* main.py:260  {p["slug"]: p["id"] for p in module.parts}: a later part with
\* the same slug overwrites an earlier one
PartMap(ps) ==
    [s \in {ps[i].slug : i \in 1..Len(ps)} |->
        ps[CHOOSE i \in 1..Len(ps) :
              /\ ps[i].slug = s
              /\ \A j \in 1..Len(ps) : ps[j].slug = s => j <= i].id]

\* main.py:267  [filter_value] if not isinstance(filter_value, list) else filter_value
EnsureList(v) == IF v.kind # "list" THEN <<v.s>> ELSE v.l

\* main.py:265 without the truthiness test
KeepFilterAnyValue(part_map, f) == f.name \in DOMAIN part_map
\* main.py:265  if filter_value and filter_name in part_map
KeepFilter(part_map, f) == Truthy(f.value) /\ f.name \in DOMAIN part_map

\* main.py:263-271: the loop over filters.items(), from item i on
RECURSIVE ConvertFrom(_, _, _, _)
ConvertFrom(part_map, f, i, acc) ==
    IF i > Len(f) THEN acc
    ELSE IF KeepFilter(part_map, f[i])
         THEN ConvertFrom(part_map, f, i + 1,
                  Append(acc, [modulePartId |-> part_map[f[i].name],
                               values |-> EnsureList(f[i].value)]))
         ELSE ConvertFrom(part_map, f, i + 1, acc)

BuildParts(module_parts, f) == ConvertFrom(PartMap(module_parts), f, 1, <<>>)

----------------------------------------------------------------------------
(* Exceptions: type, HTTP status (0 when it carries none) and str(e) *)

NoException == [type |-> "", status_code |-> 0, detail |-> ""]
\* httpx: response.raise_for_status() on a non-2xx response
HTTPStatusError(status) ==
    [type |-> "HTTPStatusError", status_code |-> status,
     detail |-> "HTTP " \o ToString(status)]
\* httpx: the 30 s client timeout (km24_client.py:41) ran out
TimeoutException ==
    [type |-> "TimeoutException", status_code |-> 0, detail |-> "timed out"]
\* data["id"] on a payload without that key
KeyError(key) == [type |-> "KeyError", status_code |-> 0, detail |-> key]
\* pydantic: a required str field was given null
ValidationError(field) ==
    [type |-> "ValidationError", status_code |-> 0, detail |-> field]
\* fastapi.HTTPException(status_code, detail)
HTTPException(status, detail) ==
    [type |-> "HTTPException", status_code |-> status, detail |-> detail]

\* main.py:331-333 with a bare raise: the caught exception leaves unchanged
ReraiseUnchanged(e) == e
\* main.py:331-333  every exception caught in validate leaves as a 500
WrapValidateError(e) ==
    HTTPException(500, "Failed to validate filters: " \o e.detail)

----------------------------------------------------------------------------
(* The KM24 platform, as far as validate sees it *)

ModuleIds == {110, 280, 999}
\* GET /modules/basic/{id}: the modules that exist, and their parts
ExistingModules == {110, 280}
PlatformParts(m) ==
    IF m = 110 THEN <<[id |-> 5, slug |-> "kommune"]>>
    ELSE <<[id |-> 5, slug |-> "kommune"], [id |-> 7, slug |-> "branche"]>>

Absent == "<absent>"   \* the key is not in the JSON object
Null == "<null>"       \* the key holds JSON null

\* raw hits of a hits page: alternately a fully populated hit and a sparse one
RawHitAt(i) ==
    IF i % 2 = 1
    THEN [title |-> "Paabud", hitDatetime |-> "2024-01-01", summary |-> "resume",
          description |-> Absent, url |-> "https://km24.dk/hit"]
    ELSE [title |-> Absent, hitDatetime |-> Absent, summary |-> Absent,
          description |-> "beskrivelse", url |-> Absent]
NullTitleHit ==
    [title |-> Null, hitDatetime |-> Absent, summary |-> Absent,
     description |-> Absent, url |-> Absent]
ItemLists ==
    {[i \in 1..n |-> RawHitAt(i)] : n \in 0..MaxItems} \cup {<<NullTitleHit>>}

HitCounts ==
    (0..MaxLowHits) \cup
    ((HighHitThreshold - MaxOver)..(HighHitThreshold + MaxOver))
\* GET /steps/main/hits/{id}: {count, items}, the count possibly left out
HitsPayloads ==
    {[has_count |-> TRUE, count |-> n, items |-> it] :
        n \in HitCounts, it \in ItemLists}
    \cup {[has_count |-> FALSE, count |-> 0, items |-> it] : it \in ItemLists}
NoHitsData == [has_count |-> FALSE, count |-> 0, items |-> <<>>]

\* what the platform may answer to each request
GetModuleFailures(m) ==
    (IF m \in ExistingModules THEN {} ELSE {HTTPStatusError(404)})
    \cup {HTTPStatusError(500), TimeoutException, KeyError("id")}
CreateStepFailures ==
    {HTTPStatusError(400), HTTPStatusError(500), TimeoutException}
StepFailures == {HTTPStatusError(500), TimeoutException}

----------------------------------------------------------------------------
(* main.py:296-329: from the hits payload to the ValidationResult *)

Min(a, b) == IF a < b THEN a ELSE b

\* main.py:298-303  Hit(title=hit.get("title", "Untitled"), ...)
Hit(h) ==
    [title |-> IF h.title = Absent THEN "Untitled" ELSE h.title,
     date |-> IF h.hitDatetime = Absent THEN Null ELSE h.hitDatetime,
     summary |-> IF h.summary # Absent THEN h.summary
                 ELSE IF h.description # Absent THEN h.description ELSE "",
     url |-> IF h.url = Absent THEN Null ELSE h.url]

\* main.py:304  hits_data.get("items", [])[:3]
SampleItems(data) == SubSeq(data.items, 1, Min(Len(data.items), SampleSize))
\* main.py:297-305
SampleHits(data) ==
    [i \in 1..Len(SampleItems(data)) |-> Hit(SampleItems(data)[i])]
\* Hit.title is a required str (main.py:122): null fails pydantic validation
SampleHitsValid(data) ==
    \A i \in 1..Len(SampleItems(data)) : SampleItems(data)[i].title # Null

\* main.py:307  hits_data.get("count", 0)
HitCount(data) == IF data.has_count THEN data.count ELSE 0

\* main.py:319 as >= : the boundary count itself is already "high"
IsHighHitRateInclusive(hit_count) == hit_count >= HighHitThreshold
\* main.py:319  elif hit_count > 100
IsHighHitRate(hit_count) == hit_count > HighHitThreshold

\* main.py:313-321
Warnings(hit_count) ==
    IF hit_count = 0 THEN <<"Ingen hits fundet med disse filtre">>
    ELSE IF IsHighHitRate(hit_count)
         THEN <<"Meget hoj hitrate (" \o ToString(hit_count) \o " hits)">>
         ELSE <<>>
Suggestions(hit_count) ==
    IF hit_count = 0
    THEN <<"Prov at udvide sogningen ved at fjerne nogle filtre">>
    ELSE IF IsHighHitRate(hit_count)
         THEN <<"Overvej at indsnaevre med flere specifikke filtre">>
         ELSE <<>>

\* main.py:323-329
Verdict(data) ==
    [is_valid |-> HitCount(data) > 0,
     sample_hits |-> SampleHits(data),
     hit_count |-> HitCount(data),
     warnings |-> Warnings(HitCount(data)),
     suggestions |-> Suggestions(HitCount(data))]

\* main.py:273 never taken: the empty parts list goes on to create_step
NoPartsNever(ps) == FALSE
\* main.py:273  if not parts
NoParts(ps) == ps = <<>>

\* main.py:274-280
NoFiltersVerdict ==
    [is_valid |-> FALSE,
     sample_hits |-> <<>>,
     hit_count |-> 0,
     warnings |-> <<"Ingen filtre valgt">>,
     suggestions |-> <<"Tilfoj mindst et filter for at indsnaevre sogningen">>]

NoResult ==
    [is_valid |-> FALSE, sample_hits |-> <<>>, hit_count |-> -1,
     warnings |-> <<>>, suggestions |-> <<>>]

----------------------------------------------------------------------------
(* validate_filters_with_km24 (main.py:248-333), one action per resumption *)

Calls == DOMAIN pc

StepExists(id) == \E s \in steps : s.id = id
\* the platform reports a missing step as 404; any request may fail otherwise
StepFailuresFor(id) ==
    (IF StepExists(id) THEN {} ELSE {HTTPStatusError(404)}) \cup StepFailures

\* a KM24Client method is entered: its request goes out
Request(c, op, arg) ==
    upstream' = [upstream EXCEPT ![c] = Append(@, [op |-> op, arg |-> arg])]

\* nothing was caught at main.py:331
NoCause == [op |-> "", exc |-> NoException]

\* km24_client.py: except Exception: log, raise; then main.py:331-333.
\* op is the call that raised ("Hit" for the projection at main.py:297-305)
Fail(c, op, e) ==
    /\ pc' = [pc EXCEPT ![c] = "raised"]
    /\ cause' = [cause EXCEPT ![c] = [op |-> op, exc |-> e]]
    /\ raised' = [raised EXCEPT ![c] = WrapValidateError(e)]

\* With several calls in flight the requests and the hits pages are narrowed
\* to the ones that reach the platform's steps, so that every interleaving of
\* the calls can be explored: the requests (main.py:378-406)
Concurrent == Cardinality(Calls) > 1
CallModuleIds == IF Concurrent THEN ExistingModules ELSE ModuleIds
CallFilterSpecs ==
    IF Concurrent
    THEN {<<[name |-> "kommune", value |-> PyStr("Aarhus")]>>}
    ELSE FilterSpecs
\* and the hits pages (km24_client.py:177-189)
CallHitsPayloads ==
    IF Concurrent
    THEN {[has_count |-> TRUE, count |-> 1, items |-> <<RawHitAt(1)>>]}
    ELSE HitsPayloads

\* main.py:252-257: entry, up to the await of get_module
ValidateCall(c) ==
    /\ pc[c] = "idle"
    /\ \E m \in CallModuleIds, f \in CallFilterSpecs :
          /\ module_id' = [module_id EXCEPT ![c] = m]
          /\ filters' = [filters EXCEPT ![c] = f]
          /\ IF ~km24_client
             THEN /\ pc' = [pc EXCEPT ![c] = "raised"]
                  /\ raised' = [raised EXCEPT ![c] =
                                   HTTPException(500, "KM24 API not configured")]
                  /\ UNCHANGED upstream
             ELSE /\ pc' = [pc EXCEPT ![c] = "get_module"]
                  /\ Request(c, "get_module", m)
                  /\ UNCHANGED raised
    /\ UNCHANGED <<km24_client, parts, step_id, hits_data, result, cause,
                   steps, nextStepId>>
    /\ UNCHANGED <<translate, modulesVars>>

\* km24_client.py:97-110 answered, main.py:259-289 up to the await of create_step
GetModuleOk(c) ==
    /\ pc[c] = "get_module"
    /\ module_id[c] \in ExistingModules
    \* data.get("parts", []): the payload may leave the parts out
    /\ \E module_parts \in {PlatformParts(module_id[c]), <<>>} :
          LET ps == BuildParts(module_parts, filters[c]) IN
          /\ parts' = [parts EXCEPT ![c] = ps]
          /\ IF NoParts(ps)
             THEN /\ result' = [result EXCEPT ![c] = NoFiltersVerdict]
                  /\ pc' = [pc EXCEPT ![c] = "returned"]
                  /\ UNCHANGED upstream
             ELSE /\ pc' = [pc EXCEPT ![c] = "create_step"]
                  /\ Request(c, "create_step", module_id[c])
                  /\ UNCHANGED result
    /\ UNCHANGED <<km24_client, module_id, filters, step_id, hits_data, raised,
                   cause, steps, nextStepId>>
    /\ UNCHANGED <<translate, modulesVars>>

\* km24_client.py:112-114, main.py:331-333
GetModuleFails(c) ==
    /\ pc[c] = "get_module"
    /\ \E e \in GetModuleFailures(module_id[c]) : Fail(c, "get_module", e)
    /\ UNCHANGED <<km24_client, module_id, filters, parts, step_id, hits_data,
                   result, upstream, steps, nextStepId>>
    /\ UNCHANGED <<translate, modulesVars>>

\* main.py:291 with step_id kept in a module-level variable that all calls share
CreateStepOkSharedStepId(c) ==
    /\ pc[c] = "create_step"
    /\ steps' = steps \cup
          {[id |-> nextStepId,
            name |-> "__temp_validation_" \o ToString(module_id[c]),
            moduleId |-> module_id[c],
            lookbackDays |-> LookbackDays,
            parts |-> parts[c]]}
    /\ nextStepId' = nextStepId + 1
    /\ step_id' = [d \in Calls |-> nextStepId]
    /\ pc' = [pc EXCEPT ![c] = "get_hits"]
    /\ Request(c, "get_step_hits", nextStepId)
    /\ UNCHANGED <<km24_client, module_id, filters, parts, hits_data, result,
                   raised, cause>>
    /\ UNCHANGED <<translate, modulesVars>>

\* km24_client.py:136-151 answered, main.py:291-294 up to the await of get_step_hits
CreateStepOk(c) ==
    /\ pc[c] = "create_step"
    /\ steps' = steps \cup
          {[id |-> nextStepId,
            name |-> "__temp_validation_" \o ToString(module_id[c]),
            moduleId |-> module_id[c],
            lookbackDays |-> LookbackDays,
            parts |-> parts[c]]}
    /\ nextStepId' = nextStepId + 1
    /\ step_id' = [step_id EXCEPT ![c] = nextStepId]
    /\ pc' = [pc EXCEPT ![c] = "get_hits"]
    /\ Request(c, "get_step_hits", nextStepId)
    /\ UNCHANGED <<km24_client, module_id, filters, parts, hits_data, result,
                   raised, cause>>
    /\ UNCHANGED <<translate, modulesVars>>

\* main.py:331-333 with a cleanup that deletes whether or not a step was created
CreateStepFailsThenDelete(c) ==
    /\ pc[c] = "create_step"
    /\ \E e \in CreateStepFailures :
          cause' = [cause EXCEPT ![c] = [op |-> "create_step", exc |-> e]]
    /\ pc' = [pc EXCEPT ![c] = "delete_step"]
    /\ Request(c, "delete_step", step_id[c])
    /\ UNCHANGED <<km24_client, module_id, filters, parts, step_id, hits_data,
                   result, raised, steps, nextStepId>>
    /\ UNCHANGED <<translate, modulesVars>>

\* km24_client.py:153-155, main.py:331-333
CreateStepFails(c) ==
    /\ pc[c] = "create_step"
    /\ \E e \in CreateStepFailures : Fail(c, "create_step", e)
    /\ UNCHANGED <<km24_client, module_id, filters, parts, step_id, hits_data,
                   result, upstream, steps, nextStepId>>
    /\ UNCHANGED <<translate, modulesVars>>

\* km24_client.py:177-189 answered, main.py:296-310 up to the await of delete_step
GetHitsOk(c) ==
    /\ pc[c] = "get_hits"
    /\ StepExists(step_id[c])
    /\ \E data \in CallHitsPayloads :
          /\ hits_data' = [hits_data EXCEPT ![c] = data]
          /\ IF SampleHitsValid(data)
             THEN /\ pc' = [pc EXCEPT ![c] = "delete_step"]
                  /\ Request(c, "delete_step", step_id[c])
                  /\ UNCHANGED <<raised, cause>>
             ELSE /\ Fail(c, "Hit", ValidationError("title"))
                  /\ UNCHANGED upstream
    /\ UNCHANGED <<km24_client, module_id, filters, parts, step_id, result,
                   steps, nextStepId>>
    /\ UNCHANGED <<translate, modulesVars>>

\* km24_client.py:191-193 with one retry of the GET before giving up
GetHitsFailsRetry(c) ==
    /\ pc[c] = "get_hits"
    /\ \E e \in StepFailuresFor(step_id[c]) :
          IF Len(upstream[c]) < 4
          THEN /\ Request(c, "get_step_hits", step_id[c])
               /\ UNCHANGED <<pc, cause, raised>>
          ELSE /\ Fail(c, "get_step_hits", e)
               /\ UNCHANGED upstream
    /\ UNCHANGED <<km24_client, module_id, filters, parts, step_id, hits_data,
                   result, steps, nextStepId>>
    /\ UNCHANGED <<translate, modulesVars>>

\* km24_client.py:191-193, main.py:331-333
GetHitsFails(c) ==
    /\ pc[c] = "get_hits"
    /\ \E e \in StepFailuresFor(step_id[c]) : Fail(c, "get_step_hits", e)
    /\ UNCHANGED <<km24_client, module_id, filters, parts, step_id, hits_data,
                   result, upstream, steps, nextStepId>>
    /\ UNCHANGED <<translate, modulesVars>>

\* km24_client.py:203-205 answered, main.py:312-329
DeleteStepOk(c) ==
    /\ pc[c] = "delete_step"
    /\ StepExists(step_id[c])
    /\ steps' = {s \in steps : s.id # step_id[c]}
    /\ result' = [result EXCEPT ![c] = Verdict(hits_data[c])]
    /\ pc' = [pc EXCEPT ![c] = "returned"]
    /\ UNCHANGED <<km24_client, module_id, filters, parts, step_id, hits_data,
                   raised, cause, upstream, nextStepId>>
    /\ UNCHANGED <<translate, modulesVars>>

\* km24_client.py:207-209, main.py:331-333
DeleteStepFails(c) ==
    /\ pc[c] = "delete_step"
    /\ \E e \in StepFailuresFor(step_id[c]) : Fail(c, "delete_step", e)
    /\ UNCHANGED <<km24_client, module_id, filters, parts, step_id, hits_data,
                   result, upstream, steps, nextStepId>>
    /\ UNCHANGED <<translate, modulesVars>>

\* the platform loses a step by itself (removed by its owner's other client,
\* or expired): DELETE /steps/main/{id} then answers 404
PlatformDropStep ==
    /\ \E s \in steps : steps' = steps \ {s}
    /\ UNCHANGED <<km24_client, pc, module_id, filters, parts, step_id,
                   hits_data, result, raised, cause, upstream, nextStepId>>
    /\ UNCHANGED <<translate, modulesVars>>

InitValidate(calls) ==
    /\ km24_client \in BOOLEAN
    /\ pc = [c \in calls |-> "idle"]
    /\ module_id = [c \in calls |-> 0]
    /\ filters = [c \in calls |-> <<>>]
    /\ parts = [c \in calls |-> <<>>]
    /\ step_id = [c \in calls |-> 0]
    /\ hits_data = [c \in calls |-> NoHitsData]
    /\ result = [c \in calls |-> NoResult]
    /\ raised = [c \in calls |-> NoException]
    /\ cause = [c \in calls |-> NoCause]
    /\ upstream = [c \in calls |-> <<>>]
    /\ steps = {}
    /\ nextStepId = 42

TranslateOff ==
    [pc |-> "off", module_parts |-> <<>>, filters |-> <<>>, parts |-> <<>>]
NoCache == [is_none |-> TRUE, list |-> <<>>]

InitModulesOff ==
    /\ modules_cache = NoCache
    /\ gm = <<>>
    /\ platformVersion = 1
    /\ served = {}

Init ==
    /\ InitValidate({1})
    /\ translate = TranslateOff
    /\ InitModulesOff

Next ==
    \/ \E c \in Calls : ValidateCall(c)
    \/ \E c \in Calls : GetModuleOk(c)
    \/ \E c \in Calls : GetModuleFails(c)
    \/ \E c \in Calls : CreateStepOk(c)
    \/ \E c \in Calls : CreateStepFails(c)
    \/ \E c \in Calls : GetHitsOk(c)
    \/ \E c \in Calls : GetHitsFails(c)
    \/ \E c \in Calls : DeleteStepOk(c)
    \/ \E c \in Calls : DeleteStepFails(c)
    \/ PlatformDropStep

Spec == Init /\ [][Next]_vars

----------------------------------------------------------------------------
(* SpecConcurrent: validate calls of concurrent requests, interleaved at   *)
(* their awaits (validate_filters and search_hits, main.py:378-412)        *)

InitConcurrent ==
    /\ InitValidate(1..NumCalls)
    /\ translate = TranslateOff
    /\ InitModulesOff

SpecConcurrent == InitConcurrent /\ [][Next]_vars

----------------------------------------------------------------------------
(* SpecTranslate: the conversion applied to every schema and mapping *)

InitTranslate ==
    /\ InitValidate({})
    /\ InitModulesOff
    /\ \E ps \in ModuleSchemas, f \in FilterSpecs :
          translate = [pc |-> "input", module_parts |-> ps, filters |-> f,
                       parts |-> <<>>]

\* main.py:259-271
Translate ==
    /\ translate.pc = "input"
    /\ translate' = [translate EXCEPT
                       !.pc = "done",
                       !.parts = BuildParts(translate.module_parts,
                                            translate.filters)]
    /\ UNCHANGED <<validateVars, modulesVars>>

NextTranslate == Translate

SpecTranslate == InitTranslate /\ [][NextTranslate]_vars

----------------------------------------------------------------------------
(* KM24Client.get_modules (km24_client.py:50-84) under concurrent callers *)

Callers == DOMAIN gm

\* GET /modules/basic: the raw items of version v of the platform's list;
\* version 1 is the empty list, each later version has one module more
RawModuleAt(i) ==
    [id |-> 100 + 10 * i,
     title |-> "Modul " \o ToString(i),
     emoji |-> IF i % 2 = 1 THEN Absent ELSE "E",
     description |-> IF i % 2 = 1 THEN "beskrivelse" ELSE Absent]
PlatformItems(v) == [i \in 1..(v - 1) |-> RawModuleAt(i)]

\* km24_client.py:69-74  KM24Module(id=m["id"], title=m["title"], ...)
KM24Module(m) ==
    [id |-> m.id,
     title |-> m.title,
     emoji |-> IF m.emoji = Absent THEN "chart" ELSE m.emoji,
     description |-> IF m.description = Absent THEN Null ELSE m.description]
\* km24_client.py:68-76  the list comprehension over data.get("items", [])
BuildModules(items) == [i \in 1..Len(items) |-> KM24Module(items[i])]

\* km24_client.py:60 testing "is not None": an empty cached list counts as cached
UseCacheIfLoaded(cache, force_refresh) == ~cache.is_none /\ ~force_refresh
\* km24_client.py:60  if self._modules_cache and not force_refresh
UseCache(cache, force_refresh) ==
    /\ ~cache.is_none
    /\ cache.list # <<>>
    /\ ~force_refresh

\* km24_client.py:78 as an extend of the list already cached
StoreModulesExtend(cache, modules) ==
    [is_none |-> FALSE, list |-> cache.list \o modules]
\* km24_client.py:78  self._modules_cache = modules
StoreModules(cache, modules) == [is_none |-> FALSE, list |-> modules]

GmIdle ==
    [pc |-> "idle", force_refresh |-> FALSE, fetches |-> 0, ret |-> <<>>,
     exc |-> NoException]

GetModulesFailures == {HTTPStatusError(500), KeyError("id")}

\* km24_client.py:60-64: entry, up to the return of the cache or the await of
\* the GET
GetModulesCall(p) ==
    /\ gm[p].pc = "idle"
    /\ \E force_refresh \in BOOLEAN :
          IF UseCache(modules_cache, force_refresh)
          THEN gm' = [gm EXCEPT ![p] =
                        [GmIdle EXCEPT !.pc = "returned",
                                       !.force_refresh = force_refresh,
                                       !.ret = modules_cache.list]]
          ELSE gm' = [gm EXCEPT ![p] =
                        [GmIdle EXCEPT !.pc = "fetching",
                                       !.force_refresh = force_refresh,
                                       !.fetches = 1]]
    /\ UNCHANGED <<modules_cache, platformVersion, served>>
    /\ UNCHANGED <<validateVars, translate>>

\* km24_client.py:64-80: the GET is answered with the list the platform has now
GetModulesOk(p) ==
    /\ gm[p].pc = "fetching"
    /\ LET items == PlatformItems(platformVersion)
           modules == BuildModules(items) IN
       /\ served' = served \cup {items}
       /\ modules_cache' = StoreModules(modules_cache, modules)
       /\ gm' = [gm EXCEPT ![p].pc = "returned", ![p].ret = modules]
    /\ UNCHANGED platformVersion
    /\ UNCHANGED <<validateVars, translate>>

\* km24_client.py:82-84 with the cache dropped when the fetch fails
GetModulesFailsClearsCache(p) ==
    /\ gm[p].pc = "fetching"
    /\ \E e \in GetModulesFailures :
          gm' = [gm EXCEPT ![p].pc = "raised", ![p].exc = e]
    /\ modules_cache' = NoCache
    /\ UNCHANGED <<platformVersion, served>>
    /\ UNCHANGED <<validateVars, translate>>

\* km24_client.py:82-84: non-2xx answer or malformed payload
GetModulesFails(p) ==
    /\ gm[p].pc = "fetching"
    /\ \E e \in GetModulesFailures :
          gm' = [gm EXCEPT ![p].pc = "raised", ![p].exc = e]
    /\ UNCHANGED <<modules_cache, platformVersion, served>>
    /\ UNCHANGED <<validateVars, translate>>

\* the caller has its answer; it may call again
GetModulesDone(p) ==
    /\ gm[p].pc \in {"returned", "raised"}
    /\ gm' = [gm EXCEPT ![p] = GmIdle]
    /\ UNCHANGED <<modules_cache, platformVersion, served>>
    /\ UNCHANGED <<validateVars, translate>>

\* the platform's module list changes
PlatformPublish ==
    /\ \E v \in (1..MaxVersion) \ {platformVersion} : platformVersion' = v
    /\ UNCHANGED <<modules_cache, gm, served>>
    /\ UNCHANGED <<validateVars, translate>>

InitModules ==
    /\ InitValidate({})
    /\ translate = TranslateOff
    /\ modules_cache = NoCache
    /\ gm = [p \in 1..NumCallers |-> GmIdle]
    /\ platformVersion \in 1..MaxVersion
    /\ served = {}

NextModules ==
    \/ \E p \in Callers : GetModulesCall(p)
    \/ \E p \in Callers : GetModulesOk(p)
    \/ \E p \in Callers : GetModulesFails(p)
    \/ \E p \in Callers : GetModulesDone(p)
    \/ PlatformPublish

SpecModules == InitModules /\ [][NextModules]_vars

----------------------------------------------------------------------------
(* Properties of validate_filters_with_km24, checked under Spec *)

Terminal(c) == pc[c] \in {"returned", "raised"}
OpNames(c) == [i \in 1..Len(upstream[c]) |-> upstream[c][i].op]
Called(c, op) == \E i \in 1..Len(upstream[c]) : upstream[c][i].op = op
TimesCalled(c, op) ==
    Cardinality({i \in 1..Len(upstream[c]) : upstream[c][i].op = op})
IsPrefix(a, b) == Len(a) <= Len(b) /\ a = SubSeq(b, 1, Len(a))
PipelineOrder == <<"get_module", "create_step", "get_step_hits", "delete_step">>

\* C1: once create_step has returned a step id, a call that has returned or
\* raised has invoked delete_step for that id.
C1_DeleteOnEveryExit ==
    \A c \in Calls :
        (Terminal(c) /\ step_id[c] # 0) =>
            \E i \in 1..Len(upstream[c]) :
                upstream[c][i] = [op |-> "delete_step", arg |-> step_id[c]]

\* C2: a call that got as far as invoking delete_step returns the verdict
\* computed from the hits, whether or not the delete failed.
C2_DeleteFailureLoggedOnly ==
    \A c \in Calls :
        (Terminal(c) /\ Called(c, "delete_step")) =>
            /\ pc[c] = "returned"
            /\ result[c] = Verdict(hits_data[c])

\* the module was fetched and the filters were converted to parts
Translated(c) ==
    /\ pc[c] \notin {"idle", "get_module"}
    /\ Called(c, "get_module")
    /\ cause[c].op # "get_module"

\* C3: when the conversion yields no parts, validate returns is_valid=false,
\* hit_count=0, no sample hits, one warning and one suggestion, and has called
\* neither create_step nor get_step_hits nor delete_step.
C3_NoPartsShortCircuits ==
    \A c \in Calls :
        (Translated(c) /\ parts[c] = <<>>) =>
            /\ pc[c] = "returned"
            /\ result[c].is_valid = FALSE
            /\ result[c].hit_count = 0
            /\ result[c].sample_hits = <<>>
            /\ Len(result[c].warnings) = 1
            /\ Len(result[c].suggestions) = 1
            /\ OpNames(c) = <<"get_module">>

C3_Witness ==
    \E c \in Calls :
        /\ pc[c] = "returned"
        /\ module_id[c] = 110
        /\ filters[c] = <<[name |-> "branche", value |-> PyStr("Aarhus")]>>
        /\ parts[c] = <<>>

\* C4: when create_step fails, validate raises, returns no verdict, and calls
\* neither get_step_hits nor delete_step.
C4_CreateFailureSkipsHitsAndDelete ==
    \A c \in Calls :
        cause[c].op = "create_step" =>
            /\ pc[c] = "raised"
            /\ raised[c] # NoException
            /\ result[c] = NoResult
            /\ ~Called(c, "get_step_hits")
            /\ ~Called(c, "delete_step")
            /\ OpNames(c) = <<"get_module", "create_step">>

C4_Witness ==
    \E c \in Calls :
        /\ pc[c] = "raised"
        /\ cause[c] = [op |-> "create_step", exc |-> HTTPStatusError(400)]
        /\ parts[c] # <<>>

\* C5: the upstream calls of one validate call are a prefix of get_module,
\* create_step, get_step_hits, delete_step (so each is made at most once and in
\* that order); a call that returns a verdict from hits has made all four, the
\* last two with the id create_step returned; no verdict exists before the
\* call has returned.
C5_StrictOrderNoRetries ==
    \A c \in Calls :
        /\ IsPrefix(OpNames(c), PipelineOrder)
        /\ \A op \in {PipelineOrder[i] : i \in 1..Len(PipelineOrder)} :
              TimesCalled(c, op) <= 1
        /\ (pc[c] = "returned" /\ parts[c] # <<>>) =>
              /\ OpNames(c) = PipelineOrder
              /\ step_id[c] # 0
              /\ upstream[c][3].arg = step_id[c]
              /\ upstream[c][4].arg = step_id[c]
              /\ TimesCalled(c, "delete_step") = 1
        /\ pc[c] = "get_hits" => ~Called(c, "delete_step")
        /\ pc[c] # "returned" => result[c] = NoResult

C5_Witness ==
    \E c \in Calls :
        /\ pc[c] = "returned"
        /\ OpNames(c) = PipelineOrder
        /\ upstream[c][4] = [op |-> "delete_step", arg |-> 42]
        /\ result[c].hit_count = 2
        /\ Len(result[c].sample_hits) = 3

\* C6: on a validate that returns a verdict from hits, is_valid iff
\* hit_count > 0; hit_count = 0 gives exactly the "no hits" warning and its
\* suggestion; 1..100 gives none; 101 and more gives exactly the "high hit
\* rate" warning and its suggestion.
C6_Classification ==
    \A c \in Calls :
        (pc[c] = "returned" /\ Called(c, "get_step_hits")) =>
            LET n == IF hits_data[c].has_count THEN hits_data[c].count ELSE 0
                r == result[c] IN
            /\ r.hit_count = n
            /\ r.is_valid <=> n > 0
            /\ n = 0 =>
                  /\ r.warnings = <<"Ingen hits fundet med disse filtre">>
                  /\ r.suggestions =
                        <<"Prov at udvide sogningen ved at fjerne nogle filtre">>
            /\ (1 <= n /\ n <= 100) =>
                  /\ r.warnings = <<>>
                  /\ r.suggestions = <<>>
            /\ n >= 101 =>
                  /\ r.warnings =
                        <<"Meget hoj hitrate (" \o ToString(n) \o " hits)">>
                  /\ r.suggestions =
                        <<"Overvej at indsnaevre med flere specifikke filtre">>

C6_Witness ==
    \E c \in Calls :
        /\ pc[c] = "returned"
        /\ Called(c, "get_step_hits")
        /\ result[c].hit_count = 100
        /\ result[c].is_valid
        /\ result[c].warnings = <<>>

----------------------------------------------------------------------------
(* The conversion, checked under SpecTranslate *)

\* the items of mapping f that survive against the schema ps
Surviving(ps, f) ==
    {i \in 1..Len(f) :
        /\ Truthy(f[i].value)
        /\ \E k \in 1..Len(ps) : ps[k].slug = f[i].name}
\* the j-th surviving item, in the order of the mapping
NthSurviving(ps, f, j) ==
    CHOOSE i \in Surviving(ps, f) :
        Cardinality({k \in Surviving(ps, f) : k <= i}) = j
IdOfSlug(ps, slug) == ps[CHOOSE k \in 1..Len(ps) : ps[k].slug = slug].id

\* C7: for a schema with unique slugs, the conversion emits one part per item
\* whose value is truthy and whose key is a slug of the schema, in the order
\* of the mapping, with the id of that slug's part and the value wrapped in a
\* list unless it is one; so it emits at most as many parts as there are slugs
\* in both, and none when no key is a slug of the schema.
C7_TranslateEmitsSurvivingPairs ==
    (translate.pc = "done" /\ UniqueSlugs(translate.module_parts)) =>
        LET ps == translate.module_parts
            f == translate.filters
            out == translate.parts
            common == {f[i].name : i \in 1..Len(f)}
                         \cap {ps[k].slug : k \in 1..Len(ps)} IN
        /\ Len(out) = Cardinality(Surviving(ps, f))
        /\ \A j \in 1..Len(out) :
              LET item == f[NthSurviving(ps, f, j)] IN
              /\ out[j].modulePartId = IdOfSlug(ps, item.name)
              /\ out[j].values =
                    IF item.value.kind = "list" THEN item.value.l
                    ELSE <<item.value.s>>
        /\ Len(out) <= Cardinality(common)
        /\ common = {} => out = <<>>

C7_Witness ==
    /\ translate.pc = "done"
    /\ UniqueSlugs(translate.module_parts)
    /\ Len(translate.module_parts) = 2
    /\ Len(translate.filters) = 2
    /\ translate.filters[1].name = "branche"
    /\ translate.filters[1].value.kind = "list"
    /\ translate.filters[2].value.kind = "str"
    /\ Len(translate.parts) = 2

----------------------------------------------------------------------------
(* Properties of get_modules, checked under SpecModules *)

\* C8: a call with a non-empty cache and force_refresh false returns the cached
\* list without a fetch and leaves the cache alone; any other call fetches
\* once, and when the fetch succeeds the cache is the list built from the
\* answer, which is the value returned.
C8_CacheOrSingleFetch ==
    [][\A p \in Callers :
          /\ (gm[p].pc = "idle" /\ gm'[p].pc # "idle") =>
                IF /\ ~modules_cache.is_none
                   /\ modules_cache.list # <<>>
                   /\ ~gm'[p].force_refresh
                THEN /\ gm'[p].pc = "returned"
                     /\ gm'[p].ret = modules_cache.list
                     /\ gm'[p].fetches = 0
                     /\ modules_cache' = modules_cache
                     /\ served' = served
                ELSE /\ gm'[p].pc = "fetching"
                     /\ gm'[p].fetches = 1
          /\ gm[p].pc = "fetching" => gm'[p].fetches = 1
          /\ (gm[p].pc = "fetching" /\ gm'[p].pc = "returned") =>
                /\ gm'[p].ret = BuildModules(PlatformItems(platformVersion))
                /\ modules_cache' = [is_none |-> FALSE, list |-> gm'[p].ret]
      ]_vars

C8_Witness ==
    \E p, q \in Callers :
        /\ gm[p].pc = "returned" /\ gm[p].fetches = 0 /\ gm[p].ret # <<>>
        /\ gm[q].pc = "returned" /\ gm[q].fetches = 1 /\ ~gm[q].force_refresh
        /\ gm[q].ret = <<>>
        /\ modules_cache = [is_none |-> FALSE, list |-> <<>>]

\* C10: the cache is unset or is the complete list built from one answer of
\* the platform, and so is every list a caller has been handed.
C10_CacheIsOneCompleteResponse ==
    /\ \/ modules_cache = NoCache
       \/ /\ ~modules_cache.is_none
          /\ \E items \in served : modules_cache.list = BuildModules(items)
    /\ \A p \in Callers :
          gm[p].pc = "returned" =>
              \E items \in served : gm[p].ret = BuildModules(items)

C10_Witness ==
    \E p, q \in Callers :
        /\ gm[p].pc = "returned" /\ gm[p].fetches = 1
        /\ gm[q].pc = "returned" /\ gm[q].fetches = 1
        /\ gm[p].ret # gm[q].ret
        /\ Len(gm[p].ret) > 0 /\ Len(gm[q].ret) > 0
        /\ modules_cache.list = gm[q].ret

\* C11: a get_modules call whose fetch fails raises the failure to its caller
\* and changes the cache neither when it starts the fetch nor when it fails;
\* with a non-empty list still cached, a later call without force_refresh
\* returns that list without a fetch.
C11_FailedFetchKeepsCache ==
    [][\A p \in Callers :
          /\ (gm[p].pc = "idle" /\ gm'[p].pc = "fetching") =>
                modules_cache' = modules_cache
          /\ (gm[p].pc = "fetching" /\ gm'[p].pc = "raised") =>
                /\ gm'[p].exc \in {HTTPStatusError(500), KeyError("id")}
                /\ gm'[p].ret = <<>>
                /\ modules_cache' = modules_cache
                /\ served' = served
          /\ (gm[p].pc = "raised" /\ gm[p].force_refresh
                /\ modules_cache.list # <<>>) =>
                \A q \in Callers :
                    (gm[q].pc = "idle" /\ gm'[q].pc # "idle"
                        /\ ~gm'[q].force_refresh) =>
                        /\ gm'[q].pc = "returned"
                        /\ gm'[q].ret = modules_cache.list
                        /\ gm'[q].fetches = 0
      ]_vars

C11_Witness ==
    \E p, q \in Callers :
        /\ gm[p].pc = "raised" /\ gm[p].force_refresh
        /\ gm[p].exc = HTTPStatusError(500)
        /\ gm[q].pc = "returned" /\ gm[q].fetches = 0 /\ ~gm[q].force_refresh
        /\ Len(gm[q].ret) = 2
        /\ modules_cache = [is_none |-> FALSE, list |-> gm[q].ret]

----------------------------------------------------------------------------
(* Concurrent validate calls, checked under SpecConcurrent *)

StepCalls == {"get_step_hits", "delete_step"}

\* C12: with several validate calls in flight, every get_step_hits and
\* delete_step of a call names the step id its own create_step returned, which
\* no other call holds or names; the step with that id carries the call's own
\* module and parts; a step still on the platform belongs to a call in flight
\* or to one that raised, so none is left once every call has returned.
C12_CallsUseOwnStep ==
    /\ \A c \in Calls :
          /\ \A i \in 1..Len(upstream[c]) :
                upstream[c][i].op \in StepCalls =>
                    /\ step_id[c] # 0
                    /\ upstream[c][i].arg = step_id[c]
          /\ step_id[c] # 0 =>
                \A d \in Calls \ {c} :
                    /\ step_id[d] # step_id[c]
                    /\ \A i \in 1..Len(upstream[d]) :
                          upstream[d][i].op \in StepCalls =>
                              upstream[d][i].arg # step_id[c]
          /\ \A s \in steps :
                s.id = step_id[c] =>
                    /\ s.moduleId = module_id[c]
                    /\ s.parts = parts[c]
    /\ \A s \in steps :
          \E c \in Calls :
              /\ step_id[c] = s.id
              /\ pc[c] \in {"get_hits", "delete_step", "raised"}
    /\ (\A c \in Calls : pc[c] = "returned") => steps = {}

C12_Witness ==
    \E c, d \in Calls :
        /\ c # d
        /\ module_id[c] = module_id[d]
        /\ pc[c] = "returned" /\ result[c].hit_count = 1
        /\ pc[d] = "delete_step"
        /\ step_id[c] > step_id[d]
        /\ \E s \in steps : s.id = step_id[d] /\ s.name = "__temp_validation_110"
        /\ ~StepExists(step_id[c])

====
